---- MODULE Spec2Model ----
(***************************************************************************)
(* Online triplet-mining training loop of colab-training:                  *)
(*   training/miners.py    SemiHardMiner, HardMiner                        *)
(*   training/sampling.py  PKSampler                                       *)
(*   training/engine.py    train_one_epoch                                 *)
(*   training/runner.py    TrainingRunner.run                              *)
(* Embeddings are one-dimensional integer vectors, so that the Euclidean   *)
(* distance of cdist(emb, emb, p=2) is the absolute difference.  Python    *)
(* indices are kept: a tensor of B entries is a function on 0..B-1.        *)
(***************************************************************************)
EXTENDS Integers, Sequences, FiniteSets, TLC

\* ---------------------------------------------------------------- bounds
MaxB == 4          \* largest batch handed to a miner
Margin == 2        \* the margin of the miner under check
MaxN == 4          \* PKSampler: largest number of samples
MaxP == 2          \* PKSampler: P in 1..MaxP
MaxK == 3          \* PKSampler: K in 1..MaxK

MaxIdentities == 3 \* PKSampler: distinct user codes

BatchSizes == {4, 8, 12}            \* dataset_cfg.batch_size
UserCodes == {"u1", "u2"}           \* user codes of the training split
LoopEmbValues == 0..1               \* run(): values of an embedding coordinate
EmbValues == 0..2                   \* values of an embedding coordinate
LabelValues == {0, 1}               \* integer identity labels of a miner batch
MaxBatches == 4    \* train_one_epoch: batches of the dataloader
MaxAccum == 2      \* grad_accum_steps in 1..MaxAccum
MaxLogFreq == 2    \* log_frequency in 1..MaxLogFreq
MaxLoopB == 3      \* run(): samples of a mini-batch
MaxLoopBatches == 2 \* run(): mini-batches of an epoch

NoRatio == <<0, 0>>                 \* length_tolerance_ratio = None
Ratios == {NoRatio, <<1, 2>>}      \* None, or the ratio num/den
LengthValues == {1, 3}              \* sequence lengths (mask.sum)

\* ------------------------------------------------------------- variables
VARIABLES
    emb, labels, lengths,           \* miner call: arguments
    length_tolerance_ratio, margin, \* miner object: fields
    miner,                          \* which miner was called ("" before)
    triplets                        \* returned (anchor, positive, negative) rows

VARIABLES
    pk_labels, P, K,                \* PKSampler: labels (user code per index), P, K
    shuffle_identities,             \* PKSampler: shuffle flag
    ids, group_start,               \* PKSampler.__iter__: shuffled identities, loop index i
    batches,                        \* the batches yielded so far by this iteration
    spc,                            \* "new", "iterating" or "exhausted"
    dl_batch_size,                  \* DataLoader(batch_size=P*K, sampler=...), 0: no loader
    index_batch,                    \* the index list the loader hands to the dataset
    lpc                             \* "none", "collecting" or "TypeError"

VARIABLES
    n_batches,                      \* train_one_epoch: len(dataloader)
    grad_accum_steps, log_frequency,\* train_one_epoch: arguments
    has_scheduler,                  \* scheduler is not None
    e_pc,                           \* "running", "returned" or "raised"
    e_error,                        \* the exception that left the function ("" if none)
    batch_idx, step,                \* loop index, count of backward passes
    epoch_metrics,                  \* the counters (lists by their length)
    grad_norm_bound,                \* the local grad_norm has been assigned
    e_weights,                      \* model parameters, by version
    e_grads, e_grads_finite,        \* .grad: backward passes accumulated; all finite
    e_ops,                          \* what the last loop round executed, in order
    e_batch,                        \* what the last batch was like
    e_result                        \* the returned dictionary

engineVars == <<n_batches, grad_accum_steps, log_frequency, has_scheduler, e_pc, e_error,
                batch_idx, step, epoch_metrics, grad_norm_bound, e_weights, e_grads,
                e_grads_finite, e_ops, e_batch, e_result>>

VARIABLES
    mixed_precision,                \* train_cfg.mixed_precision: the GradScaler is enabled
    t_left,                         \* run(), inner loop: mini-batches still to come
    t_pc,                           \* "running", "done" or "raised"
    t_weights,                      \* model parameters, by version; NonFinite once NaN/Inf
    non_finite_steps, total_steps,  \* the counters of the inner loop
    t_uc,                           \* user code of each sample of the last mini-batch
    t_triplets,                     \* the triplets the last triplet loss was computed on
    t_batch,                        \* what the last mini-batch was like
    t_ops                           \* what the last loop round executed, in order

loopVars == <<mixed_precision, t_left, t_pc, t_weights, non_finite_steps, total_steps,
              t_uc, t_triplets, t_batch, t_ops>>

VARIABLES
    epochs, early_stopping_patience,\* train_cfg
    resume, run_name_set,           \* train_cfg.resume, train_cfg.run_name is not None
    legacy_dirs,                    \* checkpoint_dir, log_dir and export_dir are configured
    best_pt,                        \* the file checkpoint_dir/best.pt
    metrics_log,                    \* the file log_dir/metrics.jsonl, a record per line
    r_pc,                           \* the phase of run()
    epoch, start_epoch,             \* loop variable, first epoch of the loop
    best_eer,                       \* best validation EER, NoEer for None
    has_best_eer_seen,              \* hasattr(self, "_best_eer_seen")
    best_eer_seen, no_improve,      \* self._best_eer_seen, self._no_improve
    r_model, r_optimizer, r_scaler, \* model, optimizer and scaler state, by version
    m_eer,                          \* m["eer"] of the last validation
    ckpt_saved, counter_incremented,\* what the last end of an epoch did
    stale_epochs,                   \* trailing epochs of this run whose EER was no new best
    epochs_run,                     \* training epochs executed by this run
    observed,                       \* the validation EERs this run knows, each with its weights
    scheduler,                      \* the ReduceLROnPlateau object bound to "scheduler"
    lr_reductions,                  \* times the learning rate of the optimizer was reduced
    resources                       \* what run() opened or redirected and has not given back

runVars == <<epochs, early_stopping_patience, resume, run_name_set, legacy_dirs, best_pt,
             metrics_log, r_pc, epoch, start_epoch, best_eer, has_best_eer_seen,
             best_eer_seen, no_improve, r_model, r_optimizer, r_scaler, m_eer,
             ckpt_saved, counter_incremented, stale_epochs, epochs_run, observed,
             scheduler, lr_reductions, resources>>

VARIABLES
    y_true, y_score,                \* the arguments of compute_eer / compute_metrics
    met_pc,                         \* "input", then "returned" or the exception raised
    met_result                      \* the value returned

metricsVars == <<y_true, y_score, met_pc, met_result>>

VARIABLES
    ds_size,   user_of,             \* the dataset: sample i belongs to user_of[i]
    train_ratio, val_ratio,         \* dataset_cfg ratios, in percent
    train_idx, val_idx, test_idx,   \* the index lists of the three splits
    split_pc

splitVars == <<ds_size, user_of, train_ratio, val_ratio, train_idx, val_idx, test_idx,
               split_pc>>

VARIABLES
    v_seen,                         \* validation: per user code, the samples that came
    ucs,                            \* list(per_uc_embs.keys())
    per_uc_embs,                    \* per user code, the embeddings kept
    v_pairs,                        \* the pair behind every entry of scores, with its ys
    v_pc                            \* "collecting", then "built" or "ValueError"

valVars == <<v_seen, ucs, per_uc_embs, v_pairs, v_pc>>

minerVars == <<emb, labels, lengths, length_tolerance_ratio, margin, miner, triplets>>
samplerVars == <<pk_labels, P, K, shuffle_identities, ids, group_start, batches, spc>>
loaderVars == <<dl_batch_size, index_batch, lpc>>

vars == <<minerVars, samplerVars, loaderVars, engineVars, loopVars, runVars, metricsVars,
          splitVars, valVars>>

\* the parts of the state a specification does not use
MinerIdle ==
    /\ emb = <<>> /\ labels = <<>> /\ lengths = <<>>
    /\ length_tolerance_ratio = <<0, 0>> /\ margin = 0
    /\ miner = "" /\ triplets = <<>>

SamplerIdle ==
    /\ pk_labels = <<>> /\ P = 0 /\ K = 0 /\ shuffle_identities = FALSE
    /\ ids = <<>> /\ group_start = 0 /\ batches = <<>> /\ spc = ""

EngineIdle ==
    /\ n_batches = 0 /\ grad_accum_steps = 0 /\ log_frequency = 0 /\ has_scheduler = FALSE
    /\ e_pc = "" /\ e_error = "" /\ batch_idx = 0 /\ step = 0 /\ epoch_metrics = <<>>
    /\ grad_norm_bound = FALSE /\ e_weights = 0 /\ e_grads = 0 /\ e_grads_finite = TRUE
    /\ e_ops = <<>> /\ e_batch = "" /\ e_result = <<>>

LoopIdle ==
    /\ mixed_precision = FALSE /\ t_left = 0 /\ t_pc = "" /\ t_weights = 0
    /\ non_finite_steps = 0 /\ total_steps = 0 /\ t_uc = <<>> /\ t_triplets = <<>>
    /\ t_batch = "" /\ t_ops = <<>>

RunIdle ==
    /\ epochs = 0 /\ early_stopping_patience = 0 /\ resume = FALSE /\ run_name_set = FALSE
    /\ legacy_dirs = FALSE /\ best_pt = <<>> /\ metrics_log = <<>> /\ r_pc = ""
    /\ epoch = 0 /\ start_epoch = 0 /\ best_eer = 0 /\ has_best_eer_seen = FALSE
    /\ best_eer_seen = 0 /\ no_improve = 0 /\ r_model = 0 /\ r_optimizer = 0
    /\ r_scaler = 0 /\ m_eer = 0 /\ ckpt_saved = FALSE /\ counter_incremented = FALSE
    /\ stale_epochs = 0 /\ epochs_run = 0 /\ observed = <<>>
    /\ scheduler = <<>> /\ lr_reductions = 0 /\ resources = {}

MetricsIdle == y_true = <<>> /\ y_score = <<>> /\ met_pc = "" /\ met_result = <<>>

SplitIdle ==
    /\ ds_size = 0 /\ user_of = <<>> /\ train_ratio = 0 /\ val_ratio = 0
    /\ train_idx = <<>> /\ val_idx = <<>> /\ test_idx = <<>> /\ split_pc = ""

ValIdle ==
    /\ v_seen = <<>> /\ ucs = <<>> /\ per_uc_embs = <<>> /\ v_pairs = <<>> /\ v_pc = ""

LoaderIdle == dl_batch_size = 0 /\ index_batch = <<>> /\ lpc = "none"

\* ------------------------------------------------------------ miners.py
Abs(x) == IF x < 0 THEN -x ELSE x

\* dist = torch.cdist(emb, emb, p=2); dist[i][j]
Dist(e, i, j) == Abs(e[i] - e[j])

BatchIdx(e) == DOMAIN e

\* the indices of a boolean mask, ascending: torch.arange(B)[mask]
RECURSIVE Arange(_)
Arange(S) ==
    IF S = {} THEN <<>>
    ELSE LET lo == CHOOSE x \in S : \A y \in S : x <= y
         IN <<lo>> \o Arange(S \ {lo})

\* mask_pos = labels == labels[i]   (the anchor itself is part of it)
MaskPos(lab, i) == {j \in DOMAIN lab : lab[j] = lab[i]}

\* similar_len = |lengths - lengths[i]| <= max(1.0, ratio * lengths[i])
SimilarLen(len, ratio, i, j) ==
    \/ Abs(len[j] - len[i]) <= 1
    \/ Abs(len[j] - len[i]) * ratio[2] <= ratio[1] * len[i]

\* mask_neg = labels != labels[i], and similar_len when lengths and ratio are given
MaskNeg(lab, len, ratio, i) ==
    {j \in DOMAIN lab :
        /\ lab[j] # lab[i]
        /\ (ratio = NoRatio \/ SimilarLen(len, ratio, i, j))}

\* dist[i][mask]: the distances of the masked entries, in index order
DistOf(e, i, idxs) == [k \in 1..Len(idxs) |-> Dist(e, i, idxs[k])]

SeqMax(s) == CHOOSE m \in {s[k] : k \in 1..Len(s)} : \A k \in 1..Len(s) : s[k] <= m
SeqMin(s) == CHOOSE m \in {s[k] : k \in 1..Len(s)} : \A k \in 1..Len(s) : m <= s[k]

\* torch.argmax / torch.argmin: position of the first extremal entry (1-based here)
ArgMax(s) == CHOOSE k \in 1..Len(s) : s[k] = SeqMax(s) /\ \A l \in 1..(k-1) : s[l] # SeqMax(s)
ArgMin(s) == CHOOSE k \in 1..Len(s) : s[k] = SeqMin(s) /\ \A l \in 1..(k-1) : s[l] # SeqMin(s)

\* neg_dist[(neg_dist < ap_dist + margin) & (neg_dist > ap_dist)]
InBand(d, ap, mg) == d < ap + mg /\ d > ap
ValidNegs(neg_dist, ap, mg) == SelectSeq(neg_dist, LAMBDA d : InBand(d, ap, mg))

\* (a guard that lets an anchor through that has no positive but itself)
SkippedOnlyWithoutSelf(lab, len, ratio, i) ==
    Cardinality(MaskPos(lab, i)) < 1 \/ MaskNeg(lab, len, ratio, i) = {}

\* the guard of both miners: if pos_dist.numel() < 2 or neg_dist.numel() == 0: continue
Skipped(lab, len, ratio, i) ==
    Cardinality(MaskPos(lab, i)) < 2 \/ MaskNeg(lab, len, ratio, i) = {}

\* (the nearest same-identity sample instead of the farthest)
PosIdxNearest(e, lab, i) ==
    LET ps == Arange(MaskPos(lab, i))
    IN ps[ArgMin(DistOf(e, i, ps))]

\* pos_idx_global = arange(B)[mask_pos][argmax(pos_dist)]
PosIdxGlobal(e, lab, i) ==
    LET ps == Arange(MaskPos(lab, i))
    IN ps[ArgMax(DistOf(e, i, ps))]

\* a fallback that takes the last of the nearest negatives instead of the first
ArgMinLast(s) == CHOOSE k \in 1..Len(s) : s[k] = SeqMin(s) /\ \A l \in (k+1)..Len(s) : s[l] # SeqMin(s)

SemiHardNegChoiceLastOnTie(neg_dist, ap, mg) ==
    IF Len(ValidNegs(neg_dist, ap, mg)) = 0
    THEN ArgMinLast(neg_dist)
    ELSE ArgMin(ValidNegs(neg_dist, ap, mg))

\* SemiHardMiner: neg_choice indexes valid_negs when the band is not empty, and is
\* then applied to arange(B)[mask_neg], the whole negative pool
SemiHardNegChoice(neg_dist, ap, mg) ==
    IF Len(ValidNegs(neg_dist, ap, mg)) = 0
    THEN ArgMin(neg_dist)
    ELSE ArgMin(ValidNegs(neg_dist, ap, mg))

SemiHardNegIdxGlobal(e, lab, len, ratio, mg, i) ==
    LET ps == Arange(MaskPos(lab, i))
        ns == Arange(MaskNeg(lab, len, ratio, i))
        ap_dist == SeqMax(DistOf(e, i, ps))
    IN ns[SemiHardNegChoice(DistOf(e, i, ns), ap_dist, mg)]

\* HardMiner: neg_idx_global = arange(B)[mask_neg][argmin(neg_dist)]
HardNegIdxGlobal(e, lab, len, ratio, i) ==
    LET ns == Arange(MaskNeg(lab, len, ratio, i))
    IN ns[ArgMin(DistOf(e, i, ns))]

\* the rows appended for the anchors i, i+1, ..., B-1, in that order
RECURSIVE SemiHardRows(_, _, _, _, _, _)
SemiHardRows(e, lab, len, ratio, mg, i) ==
    IF i \notin DOMAIN e THEN <<>>
    ELSE (IF Skipped(lab, len, ratio, i) THEN <<>>
          ELSE << [a |-> i, p |-> PosIdxGlobal(e, lab, i),
                   n |-> SemiHardNegIdxGlobal(e, lab, len, ratio, mg, i)] >>)
         \o SemiHardRows(e, lab, len, ratio, mg, i + 1)

RECURSIVE HardRows(_, _, _, _, _)
HardRows(e, lab, len, ratio, i) ==
    IF i \notin DOMAIN e THEN <<>>
    ELSE (IF Skipped(lab, len, ratio, i) THEN <<>>
          ELSE << [a |-> i, p |-> PosIdxGlobal(e, lab, i),
                   n |-> HardNegIdxGlobal(e, lab, len, ratio, i)] >>)
         \o HardRows(e, lab, len, ratio, i + 1)

SemiHardMiner(e, lab, len, ratio, mg) == SemiHardRows(e, lab, len, ratio, mg, 0)
HardMiner(e, lab, len, ratio) == HardRows(e, lab, len, ratio, 0)

\* a miner object and the arguments of one call
MinerInit ==
    /\ \E B \in 1..MaxB :
         /\ emb \in [0..(B-1) -> EmbValues]
         /\ labels \in {l \in [0..(B-1) -> LabelValues] : l[0] = 0}
         /\ length_tolerance_ratio \in Ratios
         /\ IF length_tolerance_ratio = NoRatio
            THEN lengths = [j \in 0..(B-1) |-> 1]
            ELSE lengths \in [0..(B-1) -> LengthValues]
    /\ margin = Margin
    /\ miner = ""
    /\ triplets = <<>>
    /\ SamplerIdle /\ LoaderIdle /\ EngineIdle /\ LoopIdle /\ RunIdle
    /\ MetricsIdle /\ SplitIdle /\ ValIdle

CallSemiHardMiner ==
    /\ miner = ""
    /\ miner' = "SemiHardMiner"
    /\ triplets' = SemiHardMiner(emb, labels, lengths, length_tolerance_ratio, margin)
    /\ UNCHANGED <<emb, labels, lengths, length_tolerance_ratio, margin>>
    /\ UNCHANGED <<samplerVars, loaderVars, engineVars, loopVars, runVars,
                   metricsVars, splitVars, valVars>>

CallHardMiner ==
    /\ miner = ""
    /\ miner' = "HardMiner"
    /\ triplets' = HardMiner(emb, labels, lengths, length_tolerance_ratio)
    /\ UNCHANGED <<emb, labels, lengths, length_tolerance_ratio, margin>>
    /\ UNCHANGED <<samplerVars, loaderVars, engineVars, loopVars, runVars,
                   metricsVars, splitVars, valVars>>

MinerNext == CallSemiHardMiner \/ CallHardMiner

SpecMiner == MinerInit /\ [][MinerNext]_vars

\* ---------------------------------------------------------- sampling.py
\* label lists up to renaming: label 0 comes first, a new label is the next number
RECURSIVE LabelLists(_)
LabelLists(n) ==
    IF n = 1 THEN {[j \in 0..0 |-> 0]}
    ELSE {[j \in 0..(n-1) |-> IF j < n-1 THEN l[j] ELSE g] :
            l \in LabelLists(n-1), g \in 0..(MaxIdentities-1)} 

RGLabelLists(n) ==
    {l \in LabelLists(n) :
        \A j \in 1..(n-1) : \E h \in 0..(j-1) : l[j] <= l[h] + 1}

\* __init__: label_to_indices[lab], indices appended in enumerate order
LabelToIndices(labs, g) == Arange({j \in DOMAIN labs : labs[j] = g})

\* __init__: identities = list(label_to_indices.keys()), in first-seen order
RECURSIVE Identities(_, _)
Identities(labs, j) ==
    IF j \notin DOMAIN labs THEN <<>>
    ELSE (IF \E h \in 0..(j-1) : labs[h] = labs[j] THEN <<>> ELSE <<labs[j]>>)
         \o Identities(labs, j + 1)

Injections(n, m) == {f \in [1..n -> 1..m] : \A x, y \in 1..n : x # y => f[x] # f[y]}

\* random.shuffle(s): every rearrangement of s
Shuffles(s) == {[k \in 1..Len(s) |-> s[f[k]]] : f \in Injections(Len(s), Len(s))}

\* random.sample(pool, K): K entries of pool at distinct positions, in any order
Sample(pool, k) == {[x \in 1..k |-> pool[f[x]]] : f \in Injections(k, Len(pool))}

\* (Expanded without the truncation to K entries)
ExpandedUntruncated(pool, k) ==
    [x \in 1..(((k + Len(pool) - 1) \div Len(pool)) * Len(pool)) |->
        pool[((x - 1) % Len(pool)) + 1]]

\* mult = (K + len(pool) - 1) // len(pool); expanded = (pool * mult)[:K]
Expanded(pool, k) == [x \in 1..k |-> pool[((x - 1) % Len(pool)) + 1]]

\* the picks of one identity
Picks(pool, k) ==
    IF Len(pool) >= k THEN Sample(pool, k) ELSE Shuffles(Expanded(pool, k))

\* batch.extend(picks) for g in group: every batch the group can give
RECURSIVE GroupBatches(_, _, _)
GroupBatches(group, labs, k) ==
    IF group = <<>> THEN {<<>>}
    ELSE {pk \o rest : pk \in Picks(LabelToIndices(labs, Head(group)), k),
                       rest \in GroupBatches(Tail(group), labs, k)}

\* group = ids[i:i + P]
Group(s, start, p) ==
    [x \in 1..(IF start + p <= Len(s) THEN p ELSE Len(s) - start) |-> s[start + x]]

\* (a length that drops the last, shorter group)
SamplerLenFloor(labs, p) == Len(Identities(labs, 0)) \div p

\* __len__
SamplerLen(labs, p) == (Len(Identities(labs, 0)) + p - 1) \div p

SamplerInit ==
    /\ \E n \in 1..MaxN : pk_labels \in RGLabelLists(n)
    /\ P \in 1..MaxP
    /\ K \in 1..MaxK
    /\ shuffle_identities \in BOOLEAN
    /\ ids = <<>> /\ group_start = 0 /\ batches = <<>> /\ spc = "new"
    /\ MinerIdle /\ LoaderIdle /\ EngineIdle /\ LoopIdle /\ RunIdle
    /\ MetricsIdle /\ SplitIdle /\ ValIdle

\* __iter__ up to the first group: ids = identities[:], shuffled if enabled
SamplerIter ==
    /\ spc = "new"
    /\ ids' \in (IF shuffle_identities THEN Shuffles(Identities(pk_labels, 0))
                 ELSE {Identities(pk_labels, 0)})
    /\ group_start' = 0
    /\ spc' = "iterating"
    /\ UNCHANGED <<pk_labels, P, K, shuffle_identities, batches>>
    /\ UNCHANGED <<minerVars, loaderVars, engineVars, loopVars, runVars,
                   metricsVars, splitVars, valVars>>

\* one round of the for loop: yield batch.  Under a DataLoader the BatchSampler
\* asks for the next item only while its own batch is not full.
SamplerYield ==
    /\ spc = "iterating"
    /\ group_start < Len(ids)
    /\ lpc # "TypeError"
    /\ (lpc = "collecting" => Len(batches) < dl_batch_size)
    /\ \E batch \in GroupBatches(Group(ids, group_start, P), pk_labels, K) :
         batches' = Append(batches, batch)
    /\ group_start' = group_start + P
    /\ UNCHANGED <<pk_labels, P, K, shuffle_identities, ids, spc>>
    /\ UNCHANGED <<minerVars, loaderVars, engineVars, loopVars, runVars,
                   metricsVars, splitVars, valVars>>

\* the for loop ends: StopIteration
SamplerStop ==
    /\ spc = "iterating"
    /\ group_start >= Len(ids)
    /\ lpc # "TypeError"
    /\ spc' = "exhausted"
    /\ UNCHANGED <<pk_labels, P, K, shuffle_identities, ids, group_start, batches>>
    /\ UNCHANGED <<minerVars, loaderVars, engineVars, loopVars, runVars,
                   metricsVars, splitVars, valVars>>

SamplerNext == SamplerIter \/ SamplerYield \/ SamplerStop

SpecSampler == SamplerInit /\ [][SamplerNext]_vars

\* ------------------------------------- runner.py: the training DataLoader
\* K = 4; P = max(2, int(desired_batch // K))
RunnerK == 4
RunnerP(desired_batch) == IF desired_batch \div RunnerK >= 2 THEN desired_batch \div RunnerK ELSE 2

\* an index handed to Dataset.__getitem__: an int, or (as Python allows) a list
IntIdx(n) == [is_int |-> TRUE, int |-> n, list |-> <<>>]
ListIdx(l) == [is_int |-> FALSE, int |-> 0, list |-> l]

\* DataLoader(ds_train, batch_size=P*K, sampler=sampler): the loader wraps the
\* sampler in a BatchSampler, which takes every item the sampler yields (here a
\* whole list) as ONE index and groups batch_size of them
BatchSamplerBatch(items) == [k \in 1..Len(items) |-> ListIdx(items[k])]

\* _View.__getitem__(i): self.base[self.idxs[i]], idxs a Python list: an index
\* that is not an int raises TypeError
ViewGetItemOk(n_samples, idx) == idx.is_int /\ idx.int \in 0..(n_samples - 1)

\* sampler = PKSampler([uc for ... in ds_train], P=P, K=K); loader = DataLoader(...)
LoaderInit ==
    /\ \E n \in 1..MaxN : pk_labels \in RGLabelLists(n)
    /\ K = RunnerK
    /\ \E desired_batch \in BatchSizes : P = RunnerP(desired_batch)
    /\ shuffle_identities = TRUE
    /\ ids = <<>> /\ group_start = 0 /\ batches = <<>> /\ spc = "new"
    /\ dl_batch_size = P * K
    /\ index_batch = <<>>
    /\ lpc = "collecting"
    /\ MinerIdle /\ EngineIdle /\ LoopIdle /\ RunIdle
    /\ MetricsIdle /\ SplitIdle /\ ValIdle

\* for x, mask, y, uc in pbar: the loader fetches the next mini-batch once the
\* BatchSampler has batch_size items or the sampler is exhausted (drop_last=False)
LoaderFetch ==
    /\ lpc = "collecting"
    /\ Len(batches) > 0
    /\ (Len(batches) = dl_batch_size \/ spc = "exhausted")
    /\ index_batch' = BatchSamplerBatch(batches)
    /\ lpc' = IF \A k \in 1..Len(index_batch') :
                    ViewGetItemOk(Len(pk_labels), index_batch'[k])
              THEN "fetched" ELSE "TypeError"
    /\ UNCHANGED dl_batch_size
    /\ UNCHANGED <<minerVars, samplerVars, engineVars, loopVars, runVars,
                   metricsVars, splitVars, valVars>>

LoaderNext == SamplerIter \/ SamplerYield \/ SamplerStop \/ LoaderFetch

SpecLoader == LoaderInit /\ [][LoaderNext]_vars

\* ------------------------------------------- engine.py: train_one_epoch
SkipCauses == {"nan_embeddings", "empty_triplets", "nan_distances"}

\* epoch_metrics = {...}: counters at 0, lists empty
EpochMetricsInit ==
    [valid_batches |-> 0, total_batches |-> 0, oom_errors |-> 0, nan_losses |-> 0,
     nan_embeddings |-> 0, nan_distances |-> 0, empty_triplets |-> 0,
     losses |-> 0, grad_norms |-> 0, triplet_counts |-> 0]

\* (a skip that is counted under no cause)
CountSkipNever(em, cause) == em

\* epoch_metrics[cause] += 1, before the continue of a skipped batch
CountSkip(em, cause) == [em EXCEPT ![cause] = @ + 1]

\* (a loop round that is not counted)
CountBatchNever(em) == em

\* epoch_metrics["total_batches"] += 1, at the top of every loop round
CountBatch(em) == [em EXCEPT !.total_batches = @ + 1]

\* (an optimizer step after every backward pass)
AtBoundaryAlways(st, g) == TRUE

\* step % grad_accum_steps == 0
AtBoundary(st, g) == st % g = 0

\* batch_idx % log_frequency == 0
LogsProgress(idx, f) == idx % f = 0

\* the operations of a loop round up to the loss
OpsToLoss == <<"forward", "miner", "distances", "loss">>

\* the operations of the accumulation boundary, after backward
OpsBoundary(sched) ==
    <<"unscale", "clip", "check_grad_norm", "optimizer_step", "scaler_update", "zero_grad">>
    \o (IF sched THEN <<"scheduler_step">> ELSE <<>>)

\* the returned dictionary
EpochSummary(em) ==
    [valid_batches |-> em.valid_batches, total_batches |-> em.total_batches,
     oom_errors |-> em.oom_errors, nan_losses |-> em.nan_losses,
     empty_triplets |-> em.empty_triplets]

\* entry of train_one_epoch up to the loop: optimizer.zero_grad(), counters at 0
EngineInit ==
    /\ n_batches \in 0..MaxBatches
    /\ grad_accum_steps \in 1..MaxAccum
    /\ log_frequency \in 1..MaxLogFreq
    /\ has_scheduler \in BOOLEAN
    /\ e_pc = "running" /\ e_error = ""
    /\ batch_idx = 0 /\ step = 0
    /\ epoch_metrics = EpochMetricsInit
    /\ grad_norm_bound = FALSE
    /\ e_weights = 0 /\ e_grads = 0 /\ e_grads_finite = TRUE
    /\ e_ops = <<>> /\ e_batch = "" /\ e_result = <<>>
    /\ MinerIdle /\ SamplerIdle /\ LoaderIdle /\ LoopIdle /\ RunIdle
    /\ MetricsIdle /\ SplitIdle /\ ValIdle

EngineConfig == <<n_batches, grad_accum_steps, log_frequency, has_scheduler>>

\* a loop round that ends in one of the three continue statements
BatchSkipped ==
    /\ e_pc = "running" /\ batch_idx < n_batches
    /\ \E cause \in SkipCauses :
         /\ e_batch' = cause
         /\ epoch_metrics' = CountSkip(CountBatch(epoch_metrics), cause)
         /\ e_ops' = CASE cause = "nan_embeddings" -> <<"forward">>
                       [] cause = "empty_triplets" -> <<"forward", "miner">>
                       [] cause = "nan_distances" -> <<"forward", "miner", "distances">>
    /\ batch_idx' = batch_idx + 1
    /\ UNCHANGED <<e_pc, e_error, step, grad_norm_bound, e_weights, e_grads,
                   e_grads_finite, e_result, EngineConfig>>
    /\ UNCHANGED <<minerVars, samplerVars, loaderVars, loopVars, runVars,
                   metricsVars, splitVars, valVars>>

\* a loop round whose loss is NaN or Inf: counted, then RuntimeError("Invalid loss
\* value"), which the except RuntimeError branch raises again
BatchNanLoss ==
    /\ e_pc = "running" /\ batch_idx < n_batches
    /\ e_batch' = "nan_loss"
    /\ epoch_metrics' = [CountBatch(epoch_metrics) EXCEPT !.nan_losses = @ + 1]
    /\ e_ops' = OpsToLoss
    /\ e_pc' = "raised" /\ e_error' = "RuntimeError"
    /\ UNCHANGED <<batch_idx, step, grad_norm_bound, e_weights, e_grads,
                   e_grads_finite, e_result, EngineConfig>>
    /\ UNCHANGED <<minerVars, samplerVars, loaderVars, loopVars, runVars,
                   metricsVars, splitVars, valVars>>

\* a loop round in which the forward pass raises RuntimeError "out of memory":
\* counted, cache emptied, RuntimeError("CUDA OOM ...") raised
BatchOom ==
    /\ e_pc = "running" /\ batch_idx < n_batches
    /\ e_batch' = "oom"
    /\ epoch_metrics' = [CountBatch(epoch_metrics) EXCEPT !.oom_errors = @ + 1]
    /\ e_ops' = <<"forward">>
    /\ e_pc' = "raised" /\ e_error' = "RuntimeError"
    /\ UNCHANGED <<batch_idx, step, grad_norm_bound, e_weights, e_grads,
                   e_grads_finite, e_result, EngineConfig>>
    /\ UNCHANGED <<minerVars, samplerVars, loaderVars, loopVars, runVars,
                   metricsVars, splitVars, valVars>>

\* a loop round in which an operation of the try block raises another error (a
\* RuntimeError without "out of memory", or any other Exception): raised again
BatchError ==
    /\ e_pc = "running" /\ batch_idx < n_batches
    /\ \E err \in {"RuntimeError", "Exception"} :
         /\ e_batch' = "error"
         /\ e_error' = err
    /\ epoch_metrics' = CountBatch(epoch_metrics)
    /\ e_ops' = <<"forward">>
    /\ e_pc' = "raised"
    /\ UNCHANGED <<batch_idx, step, grad_norm_bound, e_weights, e_grads,
                   e_grads_finite, e_result, EngineConfig>>
    /\ UNCHANGED <<minerVars, samplerVars, loaderVars, loopVars, runVars,
                   metricsVars, splitVars, valVars>>

\* a loop round with a finite loss: backward on loss / grad_accum_steps, and at the
\* accumulation boundary unscale, clip, the check of the gradient norm, the
\* optimizer step, scaler update, zero_grad and the scheduler step; then the
\* bookkeeping and the progress log, which reads grad_norm
BatchTrained ==
    /\ e_pc = "running" /\ batch_idx < n_batches
    /\ \E grad_finite \in BOOLEAN :
        LET step1 == step + 1
            fin == e_grads_finite /\ grad_finite
            boundary == AtBoundary(step1, grad_accum_steps)
            fatal == boundary /\ ~fin
            bound1 == grad_norm_bound \/ boundary
            unbound == ~fatal /\ LogsProgress(batch_idx, log_frequency) /\ ~bound1
            em1 == CountBatch(epoch_metrics)
            em2 == [em1 EXCEPT !.triplet_counts = @ + 1]
            em3 == IF boundary /\ ~fatal THEN [em2 EXCEPT !.grad_norms = @ + 1] ELSE em2
            em4 == IF fatal THEN em2
                   ELSE [em3 EXCEPT !.losses = @ + 1, !.valid_batches = @ + 1]
        IN /\ e_batch' = IF grad_finite THEN "ok" ELSE "nan_grad"
           /\ step' = step1
           /\ epoch_metrics' = em4
           /\ e_ops' = OpsToLoss \o <<"backward">> \o
                       (IF ~boundary THEN <<>>
                        ELSE IF fatal THEN <<"unscale", "clip", "check_grad_norm">>
                        ELSE OpsBoundary(has_scheduler))
                       \o (IF unbound THEN <<"log_unbound_grad_norm">> ELSE <<>>)
           /\ e_weights' = IF boundary /\ ~fatal THEN e_weights + 1 ELSE e_weights
           /\ e_grads' = IF boundary /\ ~fatal THEN 0 ELSE e_grads + 1
           /\ e_grads_finite' = IF boundary /\ ~fatal THEN TRUE ELSE fin
           /\ grad_norm_bound' = bound1
           /\ e_pc' = IF fatal \/ unbound THEN "raised" ELSE "running"
           /\ e_error' = IF fatal THEN "RuntimeError"
                         ELSE IF unbound THEN "UnboundLocalError" ELSE ""
           /\ batch_idx' = IF fatal \/ unbound THEN batch_idx ELSE batch_idx + 1
    /\ UNCHANGED <<e_result, EngineConfig>>
    /\ UNCHANGED <<minerVars, samplerVars, loaderVars, loopVars, runVars,
                   metricsVars, splitVars, valVars>>

\* the loop is over: the summary is computed and returned
EngineReturn ==
    /\ e_pc = "running" /\ batch_idx = n_batches
    /\ e_pc' = "returned"
    /\ e_result' = EpochSummary(epoch_metrics)
    /\ UNCHANGED <<e_error, batch_idx, step, epoch_metrics, grad_norm_bound, e_weights,
                   e_grads, e_grads_finite, e_ops, e_batch, EngineConfig>>
    /\ UNCHANGED <<minerVars, samplerVars, loaderVars, loopVars, runVars,
                   metricsVars, splitVars, valVars>>

EngineNext ==
    BatchSkipped \/ BatchNanLoss \/ BatchOom \/ BatchError \/ BatchTrained \/ EngineReturn

SpecEngine == EngineInit /\ [][EngineNext]_vars

\* ------------------------- runner.py: the inner loop of TrainingRunner.run
\* (the loop body is taken at the indentation of its block: scaler.step and
\* scaler.update belong to the loop round, after the try statement)
NonFinite == -1

\* _View.__getitem__: y = 1 if label == "genuine" else 0
ViewY(label) == IF label = "genuine" THEN 1 ELSE 0

\* a, p, n = miner(emb, y, lengths=lengths), the miner being HardMiner from epoch 0 on
LoopMiner(e, y, user_ids, len, ratio) == HardMiner(e, y, len, ratio)

\* scaler.step(optimizer): an enabled GradScaler leaves optimizer.step() out when
\* unscale_ found a non-finite gradient; a disabled one always calls it
ScalerSteps(enabled, grad_finite) == ~enabled \/ grad_finite

\* optimizer.step() on the gradient
Stepped(w, grad_finite) == IF w = NonFinite \/ ~grad_finite THEN NonFinite ELSE w + 1

\* the mini-batches of one epoch, the model in train mode
LoopInit ==
    /\ mixed_precision \in BOOLEAN
    /\ t_left \in 1..MaxLoopBatches
    /\ t_pc = "running"
    /\ t_weights = 0
    /\ non_finite_steps = 0 /\ total_steps = 0
    /\ t_uc = <<>> /\ t_triplets = <<>> /\ t_batch = "" /\ t_ops = <<>>
    /\ MinerIdle /\ SamplerIdle /\ LoaderIdle /\ EngineIdle /\ RunIdle
    /\ MetricsIdle /\ SplitIdle /\ ValIdle

\* one round of "for x, mask, y, uc in pbar" with loss_type "triplet" and the
\* default length_tolerance_ratio (None).  With parameters that are no longer
\* finite every embedding is NaN: all distances tie and the loss is not finite.
LoopRound ==
    /\ t_pc = "running" /\ t_left > 0
    /\ \E B \in 1..MaxLoopB :
       \E raw \in [0..(B-1) -> {"genuine", "forged"}], uc \in [0..(B-1) -> UserCodes],
          e \in [0..(B-1) -> LoopEmbValues], loss_finite \in BOOLEAN, grad_finite \in BOOLEAN :
        LET y == [j \in 0..(B-1) |-> ViewY(raw[j])]
            len == [j \in 0..(B-1) |-> 1]
            apn == LoopMiner(e, y, uc, len, NoRatio)
        IN /\ (t_weights = NonFinite => (~loss_finite /\ e = [j \in 0..(B-1) |-> 0]))
           /\ (~loss_finite => grad_finite)
           /\ t_uc' = uc
           /\ IF Len(apn) = 0
              THEN \* if a.numel() == 0: total_steps += 1; continue
                   /\ loss_finite /\ grad_finite
                   /\ t_batch' = "empty_triplets"
                   /\ t_triplets' = <<>>
                   /\ t_ops' = <<"zero_grad", "forward", "miner">>
                   /\ UNCHANGED <<t_weights, non_finite_steps>>
              ELSE IF ~loss_finite
              THEN \* if not torch.isfinite(loss): non_finite_steps += 1; ...; continue
                   /\ t_batch' = "nan_loss"
                   /\ t_triplets' = apn
                   /\ t_ops' = <<"zero_grad", "forward", "miner", "loss">>
                   /\ non_finite_steps' = non_finite_steps + 1
                   /\ UNCHANGED t_weights
              ELSE \* backward; try: unscale_, clip_grad_norm_; scaler.step; scaler.update
                   /\ t_batch' = IF grad_finite THEN "ok" ELSE "nan_grad"
                   /\ t_triplets' = apn
                   /\ t_ops' = <<"zero_grad", "forward", "miner", "loss", "backward",
                                 "unscale", "clip">>
                               \o (IF ScalerSteps(mixed_precision, grad_finite)
                                   THEN <<"optimizer_step">> ELSE <<>>)
                               \o <<"scaler_update">>
                   /\ t_weights' = IF ScalerSteps(mixed_precision, grad_finite)
                                   THEN Stepped(t_weights, grad_finite) ELSE t_weights
                   /\ UNCHANGED non_finite_steps
    /\ total_steps' = total_steps + 1
    /\ t_left' = t_left - 1
    /\ UNCHANGED <<mixed_precision, t_pc>>
    /\ UNCHANGED <<minerVars, samplerVars, loaderVars, engineVars, runVars,
                   metricsVars, splitVars, valVars>>

\* the loader is exhausted: avg_loss is computed and validation begins
LoopEnd ==
    /\ t_pc = "running" /\ t_left = 0
    /\ t_pc' = "done"
    /\ UNCHANGED <<mixed_precision, t_left, t_weights, non_finite_steps, total_steps,
                   t_uc, t_triplets, t_batch, t_ops>>
    /\ UNCHANGED <<minerVars, samplerVars, loaderVars, engineVars, runVars,
                   metricsVars, splitVars, valVars>>

LoopNext == LoopRound \/ LoopEnd

SpecTrainLoop == LoopInit /\ [][LoopNext]_vars

\* ------------------------------------------------- TrainingRunner.run()
\* The epochs of run(), each taken as a whole: resume, the training loop, the
\* validation, the end of the epoch (log, best checkpoint, early stopping) and
\* the final test.  EER values are counted in units of the tolerance 1e-6.

MaxEpochs == 2
MaxPatience == 2
MaxEer == 2

\* the 1e-6 of "m['eer'] + 1e-6 < self._best_eer_seen"
EerEps == 1
\* best_eer: Optional[float] = None
NoEer == -1

EerValues == 0..MaxEer

\* the state written by an earlier run that ended its epoch v
PrevRun(v) == 10 + v

NoCkpt == [exists |-> FALSE, complete |-> FALSE, epoch |-> 0, model |-> 0, optimizer |-> 0,
           scaler |-> 0, best_eer |-> NoEer]

Ckpt(ep, mo, op, sc, be) ==
    [exists |-> TRUE, complete |-> TRUE, epoch |-> ep, model |-> mo, optimizer |-> op,
     scaler |-> sc, best_eer |-> be]

\* best.pt after a torch.save(obj, path) that was cut short: the file was opened
\* for writing, which truncates it, and only a part of the archive was written
PartialCkpt == [exists |-> TRUE, complete |-> FALSE, epoch |-> 0, model |-> 0, optimizer |-> 0,
                scaler |-> 0, best_eer |-> NoEer]

\* a validation EER and the weights that reached it
Observed(eer, mo) == [eer |-> eer, model |-> mo]

EpochLine(k) == [kind |-> "epoch", epoch |-> k]
FinalTestLine == [kind |-> "final_test", epoch |-> 0]

\* the lines of metrics.jsonl for the epochs 1..n
EpochLines(n) == [k \in 1..n |-> EpochLine(k)]

\* ReduceLROnPlateau(optimizer, mode='min', factor=0.1, patience=3, min_lr=1e-6)
SchedulerPatience == 3

\* float('inf'), the initial "best" of a scheduler in mode 'min'
SchedInf == MaxEer + 1

\* "scheduler" is not bound before the first epoch
NoScheduler == [made |-> FALSE, best |-> SchedInf, num_bad_epochs |-> 0]

\* (one scheduler kept over the epochs of the run)
KeptScheduler ==
    IF scheduler.made THEN scheduler
    ELSE [made |-> TRUE, best |-> SchedInf, num_bad_epochs |-> 0]

NewScheduler == [made |-> TRUE, best |-> SchedInf, num_bad_epochs |-> 0]

\* ReduceLROnPlateau.step(metrics): the new state, and 1 if the rate was reduced
SchedulerStep(sch, metrics) ==
    LET better == metrics < sch.best
        bad == IF better THEN 0 ELSE sch.num_bad_epochs + 1
        reduce == bad > SchedulerPatience
    IN [scheduler |-> [made |-> TRUE,
                       best |-> IF better THEN metrics ELSE sch.best,
                       num_bad_epochs |-> IF reduce THEN 0 ELSE bad],
        reduced |-> IF reduce THEN 1 ELSE 0]

\* (a resume that does not ask for a run name)
CanResumeUnnamed(dir_exists) == resume /\ dir_exists

\* can_resume, given whether output_dir/run_name exists
CanResume(dir_exists) == resume /\ run_name_set /\ dir_exists

\* _setup_output_dirs creates output_dir/run_name unless the three legacy
\* directories are configured
RunDirExists(existed) == existed \/ (run_name_set /\ ~legacy_dirs)

\* (best.pt written at the end of every epoch)
ImprovedAlways(m, best) == TRUE

\* improved = best_eer is None or (m["eer"] < best_eer)
Improved(m, best) == best = NoEer \/ m < best

\* the stage of the resume block that raises, "none" when it goes through
ResumeStages == {"none", "load", "model", "optimizer", "scaler"}

RunInit ==
    /\ epochs \in 0..MaxEpochs
    /\ early_stopping_patience \in 0..MaxPatience
    /\ resume \in BOOLEAN /\ run_name_set \in BOOLEAN /\ legacy_dirs \in BOOLEAN
    \* what an earlier run left: nothing, best.pt of its best epoch, or a best.pt
    \* it was writing when it was stopped
    /\ best_pt \in {NoCkpt, PartialCkpt} \cup
                   {Ckpt(e, PrevRun(e), PrevRun(e), PrevRun(e), b) :
                        e \in 1..MaxEpochs, b \in EerValues}
    \* a run without a name and without legacy directories writes into a
    \* new timestamped directory
    /\ ((~run_name_set /\ ~legacy_dirs) => best_pt = NoCkpt)
    \* the earlier run logged every epoch up to the one it was stopped in, its
    \* best epoch being one of them
    /\ \E n \in 0..MaxEpochs :
        /\ (best_pt = NoCkpt => n = 0)
        /\ (best_pt = PartialCkpt => n >= 1)
        /\ n >= best_pt.epoch
        /\ metrics_log = EpochLines(n)
    /\ r_pc = "SETUP"
    /\ epoch = 0 /\ start_epoch = 0 /\ best_eer = NoEer
    /\ has_best_eer_seen = FALSE /\ best_eer_seen = 0 /\ no_improve = 0
    /\ r_model = 0 /\ r_optimizer = 0 /\ r_scaler = 0
    /\ m_eer = 0 /\ ckpt_saved = FALSE /\ counter_incremented = FALSE
    /\ stale_epochs = 0 /\ epochs_run = 0 /\ observed = <<>>
    /\ scheduler = NoScheduler /\ lr_reductions = 0
    \* self._log_file = open(...); sys.stdout = _Tee(...); sys.stderr = _Tee(...)
    /\ resources = {"log_file", "stdout_tee", "stderr_tee"}
    /\ MinerIdle /\ SamplerIdle /\ LoaderIdle /\ EngineIdle /\ LoopIdle
    /\ MetricsIdle /\ SplitIdle /\ ValIdle

\* (a loop whose end returns from run() at once)
EnterLoopNoTest(s) ==
    /\ r_pc' = IF s < epochs THEN "TRAIN_EPOCH" ELSE "DONE"
    /\ epoch' = IF s < epochs THEN s ELSE epoch

\* "for epoch in range(start_epoch, epochs)" entered with first epoch s
EnterLoop(s) ==
    /\ r_pc' = IF s < epochs THEN "TRAIN_EPOCH" ELSE "EPOCHS_EXHAUSTED"
    /\ epoch' = IF s < epochs THEN s ELSE epoch

\* the resume block, up to the head of the epoch loop
Resume ==
    /\ r_pc = "SETUP"
    /\ \E existed \in BOOLEAN, fails \in ResumeStages, partial \in BOOLEAN :
        LET try == CanResume(RunDirExists(existed)) /\ best_pt.exists
            ok == try /\ fails = "none"
        IN /\ (~try => (fails = "none" /\ ~partial))
           \* torch.load of a truncated file raises
           /\ ((try /\ ~best_pt.complete) => fails = "load")
           /\ ((run_name_set /\ ~legacy_dirs) => existed)
           /\ (fails # "model" => ~partial)
           /\ r_model' = IF try /\ (fails \in {"none", "optimizer", "scaler"} \/ partial)
                         THEN best_pt.model ELSE r_model
           /\ r_optimizer' = IF try /\ fails \in {"none", "scaler"}
                             THEN best_pt.optimizer ELSE r_optimizer
           /\ r_scaler' = IF ok THEN best_pt.scaler ELSE r_scaler
           /\ start_epoch' = IF ok THEN best_pt.epoch ELSE 0
           /\ best_eer' = IF ok THEN best_pt.best_eer ELSE NoEer
           /\ EnterLoop(IF ok THEN best_pt.epoch ELSE 0)
           /\ observed' = IF ok THEN <<Observed(best_pt.best_eer, best_pt.model)>> ELSE <<>>
    /\ UNCHANGED <<epochs, early_stopping_patience, resume, run_name_set, legacy_dirs,
                   best_pt, metrics_log, has_best_eer_seen, best_eer_seen, no_improve,
                   m_eer, ckpt_saved, counter_incremented, stale_epochs, epochs_run,
                   scheduler, lr_reductions>>
    /\ UNCHANGED resources
    /\ UNCHANGED <<minerVars, samplerVars, loaderVars, engineVars, loopVars,
                   metricsVars, splitVars, valVars>>

\* the mini-batches of one epoch; an exception of the loader or of the forward
\* pass leaves run()
TrainEpoch ==
    /\ r_pc = "TRAIN_EPOCH"
    /\ \E outcome \in {"stepped", "no_step", "raised"} :
        /\ r_pc' = IF outcome = "raised" THEN "ABORTED" ELSE "VALIDATE"
        /\ epochs_run' = IF outcome = "raised" THEN epochs_run ELSE epochs_run + 1
        /\ r_model' = IF outcome = "stepped" THEN r_model + 1 ELSE r_model
        /\ r_optimizer' = IF outcome = "stepped" THEN r_optimizer + 1 ELSE r_optimizer
        /\ r_scaler' = IF outcome = "stepped" THEN r_scaler + 1 ELSE r_scaler
    \* scheduler = ReduceLROnPlateau(optimizer, ...) before the loop over the loader
    /\ scheduler' = NewScheduler
    /\ UNCHANGED <<epochs, early_stopping_patience, resume, run_name_set, legacy_dirs,
                   best_pt, metrics_log, epoch, start_epoch, best_eer, has_best_eer_seen,
                   best_eer_seen, no_improve, m_eer, ckpt_saved, counter_incremented,
                   stale_epochs, observed, lr_reductions>>
    /\ UNCHANGED resources
    /\ UNCHANGED <<minerVars, samplerVars, loaderVars, engineVars, loopVars,
                   metricsVars, splitVars, valVars>>

\* the validation of the epoch: m = compute_verification_metrics(...)
Validate ==
    /\ r_pc = "VALIDATE"
    /\ m_eer' \in EerValues
    /\ r_pc' = "EPOCH_END"
    /\ UNCHANGED <<epochs, early_stopping_patience, resume, run_name_set, legacy_dirs,
                   best_pt, metrics_log, epoch, start_epoch, best_eer, has_best_eer_seen,
                   best_eer_seen, no_improve, r_model, r_optimizer, r_scaler, ckpt_saved,
                   counter_incremented, stale_epochs, epochs_run, observed, scheduler,
                   lr_reductions>>
    /\ UNCHANGED resources
    /\ UNCHANGED <<minerVars, samplerVars, loaderVars, engineVars, loopVars,
                   metricsVars, splitVars, valVars>>

\* self._no_improve after the early-stopping block for a validation EER m
NoImproveAfter(m) ==
    IF early_stopping_patience > 0
    THEN IF ~has_best_eer_seen THEN 0
         ELSE IF m + EerEps < best_eer_seen THEN 0 ELSE no_improve + 1
    ELSE no_improve

\* the end of an epoch: the line of metrics.jsonl, best.pt on improvement,
\* the early-stopping block, then break or scheduler.step and the next epoch
EpochEnd ==
    /\ r_pc = "EPOCH_END"
    /\ metrics_log' = Append(metrics_log, EpochLine(epoch + 1))
    /\ LET improved == Improved(m_eer, best_eer)
       IN /\ best_eer' = IF improved THEN m_eer ELSE best_eer
          /\ best_pt' = IF improved
                        THEN Ckpt(epoch + 1, r_model, r_optimizer, r_scaler, m_eer)
                        ELSE best_pt
          /\ ckpt_saved' = improved
          /\ stale_epochs' = IF improved THEN 0 ELSE stale_epochs + 1
    /\ observed' = Append(observed, Observed(m_eer, r_model))
    /\ no_improve' = NoImproveAfter(m_eer)
    /\ counter_incremented' = (early_stopping_patience > 0 /\ has_best_eer_seen
                               /\ ~(m_eer + EerEps < best_eer_seen))
    /\ has_best_eer_seen' = (has_best_eer_seen \/ early_stopping_patience > 0)
    /\ best_eer_seen' = IF early_stopping_patience > 0
                           /\ (~has_best_eer_seen \/ m_eer + EerEps < best_eer_seen)
                        THEN m_eer ELSE best_eer_seen
    /\ IF early_stopping_patience > 0 /\ no_improve' >= early_stopping_patience
       THEN /\ r_pc' = "EARLY_STOP" /\ epoch' = epoch
            /\ UNCHANGED <<scheduler, lr_reductions>>
       ELSE \* scheduler.step(m['eer'])
            /\ scheduler' = SchedulerStep(scheduler, m_eer).scheduler
            /\ lr_reductions' = lr_reductions + SchedulerStep(scheduler, m_eer).reduced
            /\ EnterLoop(epoch + 1)
    /\ UNCHANGED <<epochs, early_stopping_patience, resume, run_name_set, legacy_dirs,
                   start_epoch, r_model, r_optimizer, r_scaler, m_eer, epochs_run>>
    /\ UNCHANGED resources
    /\ UNCHANGED <<minerVars, samplerVars, loaderVars, engineVars, loopVars,
                   metricsVars, splitVars, valVars>>

\* the final evaluation on the test set, inside try/except Exception
FinalTest ==
    /\ r_pc \in {"EARLY_STOP", "EPOCHS_EXHAUSTED"}
    /\ \E raises \in {"none", "load", "later"} :
        /\ (raises = "load" => best_pt.exists)
        /\ ((best_pt.exists /\ ~best_pt.complete) => raises = "load")
        /\ r_model' = IF best_pt.exists /\ raises # "load" THEN best_pt.model ELSE r_model
        /\ metrics_log' = IF raises = "none" THEN Append(metrics_log, FinalTestLine)
                          ELSE metrics_log
    /\ r_pc' = "DONE"
    /\ UNCHANGED <<epochs, early_stopping_patience, resume, run_name_set, legacy_dirs,
                   best_pt, epoch, start_epoch, best_eer, has_best_eer_seen, best_eer_seen,
                   no_improve, r_optimizer, r_scaler, m_eer, ckpt_saved,
                   counter_incremented, stale_epochs, epochs_run, observed, scheduler,
                   lr_reductions>>
    /\ UNCHANGED resources
    /\ UNCHANGED <<minerVars, samplerVars, loaderVars, engineVars, loopVars,
                   metricsVars, splitVars, valVars>>

\* KeyboardInterrupt or the end of the process at some point of run(); at the end
\* of an epoch it falls before the line of metrics.jsonl, between that line and
\* torch.save, or inside torch.save
Interrupt ==
    /\ r_pc \in {"SETUP", "TRAIN_EPOCH", "VALIDATE", "EPOCH_END", "EARLY_STOP",
                 "EPOCHS_EXHAUSTED"}
    /\ r_pc' = "INTERRUPTED"
    /\ \E at \in {"before_log", "before_save", "in_save"} :
        /\ (r_pc # "EPOCH_END" => at = "before_log")
        /\ (at = "in_save" => Improved(m_eer, best_eer))
        /\ metrics_log' = IF at = "before_log" THEN metrics_log
                          ELSE Append(metrics_log, EpochLine(epoch + 1))
        /\ best_pt' = IF at = "in_save" THEN PartialCkpt ELSE best_pt
    /\ UNCHANGED <<epochs, early_stopping_patience, resume, run_name_set, legacy_dirs,
                   epoch, start_epoch, best_eer, has_best_eer_seen, best_eer_seen,
                   no_improve, r_model, r_optimizer, r_scaler, m_eer, ckpt_saved,
                   counter_incremented, stale_epochs, epochs_run, observed, scheduler,
                   lr_reductions>>
    /\ UNCHANGED resources
    /\ UNCHANGED <<minerVars, samplerVars, loaderVars, engineVars, loopVars,
                   metricsVars, splitVars, valVars>>

RunNext == Resume \/ TrainEpoch \/ Validate \/ EpochEnd \/ FinalTest \/ Interrupt

SpecRun == RunInit /\ [][RunNext]_vars

\* a fresh named run of LongEpochs epochs without early stopping, long enough for
\* a validation EER to stay without improvement for more than SchedulerPatience
\* epochs
LongEpochs == SchedulerPatience + 2

RunLongInit ==
    /\ epochs = LongEpochs
    /\ early_stopping_patience = 0
    /\ resume \in BOOLEAN /\ run_name_set = TRUE /\ legacy_dirs = FALSE
    /\ best_pt = NoCkpt
    /\ metrics_log = <<>>
    /\ r_pc = "SETUP"
    /\ epoch = 0 /\ start_epoch = 0 /\ best_eer = NoEer
    /\ has_best_eer_seen = FALSE /\ best_eer_seen = 0 /\ no_improve = 0
    /\ r_model = 0 /\ r_optimizer = 0 /\ r_scaler = 0
    /\ m_eer = 0 /\ ckpt_saved = FALSE /\ counter_incremented = FALSE
    /\ stale_epochs = 0 /\ epochs_run = 0 /\ observed = <<>>
    /\ scheduler = NoScheduler /\ lr_reductions = 0
    /\ resources = {"log_file", "stdout_tee", "stderr_tee"}
    /\ MinerIdle /\ SamplerIdle /\ LoaderIdle /\ EngineIdle /\ LoopIdle
    /\ MetricsIdle /\ SplitIdle /\ ValIdle

SpecRunLong == RunLongInit /\ [][RunNext]_vars

\* ------------------------------------------------------- metrics.py
\* compute_eer and compute_metrics over sklearn's roc_curve.  Rates are kept as
\* fractions <<numerator, denominator>>; with P positive and N negative pairs
\* fpr = fps/N and tpr = tps/P.

MaxPairs == 4
MaxScore == 2

ScoreValues == 0..MaxScore

\* the threshold roc_curve puts before the largest score
ScoreInf == MaxScore + 1

NPos(y) == Cardinality({i \in 1..Len(y) : y[i] = 1})
NNeg(y) == Cardinality({i \in 1..Len(y) : y[i] # 1})

\* the distinct values of a set, largest first
RECURSIVE DescValues(_)
DescValues(S) ==
    IF S = {} THEN <<>>
    ELSE LET m == CHOOSE x \in S : \A z \in S : z <= x
         IN <<m>> \o DescValues(S \ {m})

\* _binary_clf_curve: for every distinct score, the false and true positives of
\* the decision "score >= threshold"
BinaryClfCurve(y, sc) ==
    LET thr == DescValues({sc[i] : i \in 1..Len(sc)})
    IN [k \in 1..Len(thr) |->
           [thr |-> thr[k],
            fps |-> Cardinality({i \in 1..Len(y) : sc[i] >= thr[k] /\ y[i] # 1}),
            tps |-> Cardinality({i \in 1..Len(y) : sc[i] >= thr[k] /\ y[i] = 1})]]

\* drop_intermediate=True: only the first point, the last point and the corners stay
DropIntermediate(c) ==
    LET keep(k) == \/ k = 1 \/ k = Len(c)
                   \/ c[k+1].fps - 2 * c[k].fps + c[k-1].fps # 0
                   \/ c[k+1].tps - 2 * c[k].tps + c[k-1].tps # 0
        F[k \in 0..Len(c)] ==
            IF k = 0 THEN <<>>
            ELSE IF keep(k) THEN Append(F[k-1], c[k]) ELSE F[k-1]
    IN IF Len(c) > 2 THEN F[Len(c)] ELSE c

\* roc_curve(y_true, y_score): the points, the point (0, 0) put first; fpr is an
\* array of NaN without a negative and tpr an array of NaN without a positive
RocCurve(y, sc) ==
    <<[thr |-> ScoreInf, fps |-> 0, tps |-> 0]>> \o DropIntermediate(BinaryClfCurve(y, sc))

\* np.nanargmin(np.abs(fnr - fpr)) raises ValueError on an array of NaN only
ComputeEer(y, sc) ==
    IF NPos(y) = 0 \/ NNeg(y) = 0
    THEN [raised |-> "ValueError"]
    ELSE LET roc == RocCurve(y, sc)
             p == NPos(y)
             n == NNeg(y)
             gap == [k \in 1..Len(roc) |-> Abs((p - roc[k].tps) * n - roc[k].fps * p)]
             idx == ArgMin(gap)
         IN [raised |-> "",
             eer |-> <<(p - roc[idx].tps) * n + roc[idx].fps * p, 2 * p * n>>,
             thr |-> roc[idx].thr]

\* auc(fpr, tpr), the trapezoidal rule
Auc(y, sc) ==
    LET roc == RocCurve(y, sc)
        A[k \in 1..Len(roc)] ==
            IF k = 1 THEN 0
            ELSE A[k-1] + (roc[k].fps - roc[k-1].fps) * (roc[k].tps + roc[k-1].tps)
    IN <<A[Len(roc)], 2 * NPos(y) * NNeg(y)>>

\* compute_eer is called outside the try block, so its exception leaves the function
ComputeMetrics(y, sc) ==
    LET e == ComputeEer(y, sc)
    IN IF e.raised # "" THEN e
       ELSE [raised |-> "",
             eer |-> e.eer,
             eer_thr |-> e.thr,
             roc_auc |-> Auc(y, sc),
             roc_auc_curve |-> Auc(y, sc),
             acc |-> <<Cardinality({i \in 1..Len(y) :
                                       (IF sc[i] >= e.thr THEN 1 ELSE 0) = y[i]}),
                       Len(y)>>]

MetricsInit ==
    /\ \E n \in 1..MaxPairs :
        /\ y_true \in [1..n -> {0, 1}]
        /\ y_score \in [1..n -> ScoreValues]
    /\ met_pc = "input" /\ met_result = <<>>
    /\ MinerIdle /\ SamplerIdle /\ LoaderIdle /\ EngineIdle /\ LoopIdle /\ RunIdle
    /\ SplitIdle /\ ValIdle

CallComputeEer ==
    /\ met_pc = "input"
    /\ met_result' = ComputeEer(y_true, y_score)
    /\ met_pc' = IF met_result'.raised # "" THEN met_result'.raised ELSE "returned_eer"
    /\ UNCHANGED <<y_true, y_score>>
    /\ UNCHANGED <<minerVars, samplerVars, loaderVars, engineVars, loopVars, runVars,
                   splitVars, valVars>>

CallComputeMetrics ==
    /\ met_pc = "input"
    /\ met_result' = ComputeMetrics(y_true, y_score)
    /\ met_pc' = IF met_result'.raised # "" THEN met_result'.raised ELSE "returned"
    /\ UNCHANGED <<y_true, y_score>>
    /\ UNCHANGED <<minerVars, samplerVars, loaderVars, engineVars, loopVars, runVars,
                   splitVars, valVars>>

MetricsNext == CallComputeEer \/ CallComputeMetrics

SpecMetrics == MetricsInit /\ [][MetricsNext]_vars

\* ------------------------------------------- TrainingRunner.run(): the split
\* The branch split_by_users of the train/val/test split.  Ratios are given in
\* percent.

RatioPercents == {0, 15, 50, 70, 100}

\* int(nu * ratio): the product is a float, so where the exact product is a whole
\* number the float may fall just under it
IntOfProduct(nu, pct) ==
    LET q == (nu * pct) \div 100
    IN {q} \cup (IF (nu * pct) % 100 = 0 /\ q > 0 /\ pct # 100 THEN {q - 1} ELSE {})

\* (per_user keeping the first index of a user only)
PerUserFirstOnly(uo, uc) == <<LabelToIndices(uo, uc)[1]>>

\* per_user[uc]: the indices of the samples of uc, ascending
PerUser(uo, uc) == LabelToIndices(uo, uc)

\* users[a:b] as a set
SliceSet(users, a, b) == {users[k] : k \in {j \in 1..Len(users) : a < j /\ j <= b}}

\* "for uc, idxs in per_user.items(): ... extend(idxs)" for the users of a set
ExtendAll(uo, chosen) ==
    LET keys == Identities(uo, 0)
        F[k \in 0..Len(keys)] ==
            IF k = 0 THEN <<>>
            ELSE IF keys[k] \in chosen THEN F[k-1] \o PerUser(uo, keys[k]) ELSE F[k-1]
    IN F[Len(keys)]

SplitInit ==
    /\ ds_size \in 1..MaxN
    /\ user_of \in RGLabelLists(ds_size)
    /\ train_ratio \in RatioPercents /\ val_ratio \in RatioPercents
    /\ train_idx = <<>> /\ val_idx = <<>> /\ test_idx = <<>>
    /\ split_pc = "start"
    /\ MinerIdle /\ SamplerIdle /\ LoaderIdle /\ EngineIdle /\ LoopIdle /\ RunIdle
    /\ MetricsIdle /\ ValIdle

\* users = list(per_user.keys()); random.shuffle(users); three slices; every user
\* goes to train, else to val, else to test
SplitByUsers ==
    /\ split_pc = "start"
    /\ \E users \in Shuffles(Identities(user_of, 0)) :
       \E n_train_users \in IntOfProduct(Len(users), train_ratio),
          n_val_users \in IntOfProduct(Len(users), val_ratio) :
        LET train_users == SliceSet(users, 0, n_train_users)
            val_users == SliceSet(users, n_train_users, n_train_users + n_val_users)
            all == {users[k] : k \in 1..Len(users)}
        IN /\ train_idx' = ExtendAll(user_of, train_users)
           /\ val_idx' = ExtendAll(user_of, val_users \ train_users)
           /\ test_idx' = ExtendAll(user_of, all \ (train_users \cup val_users))
    /\ split_pc' = "done"
    /\ UNCHANGED <<ds_size, user_of, train_ratio, val_ratio>>
    /\ UNCHANGED <<minerVars, samplerVars, loaderVars, engineVars, loopVars, runVars,
                   metricsVars, valVars>>

SplitNext == SplitByUsers

SpecSplit == SplitInit /\ [][SplitNext]_vars

\* ------------------------------- TrainingRunner.run(): the validation pairs
\* An embedding is named by its user code and its rank among the samples of that
\* user code in the order of the validation loader.
MaxValSamples == 11   \* samples of the validation loader
MaxValUsers == 5      \* user codes of the validation split
MaxValNonFinite == 1  \* samples whose embedding is not finite

\* cap_per_user = 6
CapPerUser == 6
\* for j in range(i + 1, min(i + 4, len(ucs)))
ImpostorSpan == 3
\* es[:2], per_uc_embs[uc2][:2]
ImpostorTake == 2

ValUsers == 1..MaxValUsers

ValTotal(seen) ==
    LET F[u \in 0..MaxValUsers] == IF u = 0 THEN 0 ELSE F[u-1] + Len(seen[u])
    IN F[MaxValUsers]

ValNonFinite(seen) ==
    LET F[u \in 0..MaxValUsers] ==
            IF u = 0 THEN 0
            ELSE F[u-1] + Cardinality({k \in 1..Len(seen[u]) : ~seen[u][k]})
    IN F[MaxValUsers]

\* the concatenation of the sequences F[lo], ..., F[hi]
RECURSIVE Concat(_, _, _)
Concat(F, lo, hi) == IF lo > hi THEN <<>> ELSE F[lo] \o Concat(F, lo + 1, hi)

\* s[:n]
Take(s, n) == SubSeq(s, 1, IF n < Len(s) THEN n ELSE Len(s))

Pair(uc, ea, uc2, eb, y) == [a |-> <<uc, ea>>, b |-> <<uc2, eb>>, y |-> y]

\* for a in range(len(es)): for b in range(a + 1, len(es)): ys.append(1)
GenuinePairs(embs, uc) ==
    LET es == embs[uc]
    IN Concat([a \in 1..Len(es) |->
                  [k \in 1..(Len(es) - a) |-> Pair(uc, es[a], uc, es[a + k], 1)]],
              1, Len(es))

\* (impostor pairs against every later user code)
ImpostorPartnersAll(i, n) == [k \in 1..(n - i) |-> i + k]

\* range(i + 1, min(i + 4, len(ucs))), for the 1-based position i of n
ImpostorPartners(i, n) ==
    [k \in 1..((IF i + ImpostorSpan < n THEN i + ImpostorSpan ELSE n) - i) |-> i + k]

\* for ea in es[:2]: for eb in per_uc_embs[uc2][:2]: ys.append(0)
ImpostorPairsOf(embs, uc, uc2) ==
    LET ea == Take(embs[uc], ImpostorTake)
        eb == Take(embs[uc2], ImpostorTake)
    IN Concat([x \in 1..Len(ea) |->
                  [z \in 1..Len(eb) |-> Pair(uc, ea[x], uc2, eb[z], 0)]],
              1, Len(ea))

ImpostorPairs(embs, order, i) ==
    LET js == ImpostorPartners(i, Len(order))
    IN Concat([k \in 1..Len(js) |-> ImpostorPairsOf(embs, order[i], order[js[k]])],
              1, Len(js))

\* for i, uc in enumerate(ucs): genuine pairs, then impostor pairs
AllPairs(embs, order) ==
    Concat([i \in 1..Len(order) |->
               GenuinePairs(embs, order[i]) \o ImpostorPairs(embs, order, i)],
           1, Len(order))

\* model.eval() up to the loop over val_loader: per_uc_embs = defaultdict(list)
ValInit ==
    /\ v_seen = [u \in ValUsers |-> <<>>]
    /\ ucs = <<>>
    /\ per_uc_embs = [u \in ValUsers |-> <<>>]
    /\ v_pairs = <<>>
    /\ v_pc = "collecting"
    /\ MinerIdle /\ SamplerIdle /\ LoaderIdle /\ EngineIdle /\ LoopIdle /\ RunIdle
    /\ MetricsIdle /\ SplitIdle

\* one (e, uc) of "for e, uc in zip(emb, vuc)"; user codes are numbered in the
\* order of their first sample
ValSample ==
    /\ v_pc = "collecting"
    /\ ValTotal(v_seen) < MaxValSamples
    /\ \E uc \in ValUsers, finite \in BOOLEAN :
        /\ \A u \in 1..(uc - 1) : v_seen[u] # <<>>
        /\ (~finite => ValNonFinite(v_seen) < MaxValNonFinite)
        /\ v_seen' = [v_seen EXCEPT ![uc] = Append(@, finite)]
        /\ IF ~finite
           THEN UNCHANGED <<ucs, per_uc_embs>>
           ELSE /\ ucs' = IF \E k \in 1..Len(ucs) : ucs[k] = uc THEN ucs
                          ELSE Append(ucs, uc)
                /\ per_uc_embs' =
                     IF Len(per_uc_embs[uc]) < CapPerUser
                     THEN [per_uc_embs EXCEPT ![uc] = Append(@, Len(v_seen[uc]) + 1)]
                     ELSE per_uc_embs
    /\ UNCHANGED <<v_pairs, v_pc>>
    /\ UNCHANGED <<minerVars, samplerVars, loaderVars, engineVars, loopVars, runVars,
                   metricsVars, splitVars>>

\* the loader is exhausted: ucs = list(per_uc_embs.keys()), the pairs are built,
\* and the log line takes min(scores), which raises ValueError on an empty list
BuildPairs ==
    /\ v_pc = "collecting"
    /\ v_pairs' = AllPairs(per_uc_embs, ucs)
    /\ v_pc' = IF v_pairs' = <<>> THEN "ValueError" ELSE "built"
    /\ UNCHANGED <<v_seen, ucs, per_uc_embs>>
    /\ UNCHANGED <<minerVars, samplerVars, loaderVars, engineVars, loopVars, runVars,
                   metricsVars, splitVars>>

ValNext == ValSample \/ BuildPairs

SpecValPairs == ValInit /\ [][ValNext]_vars

\* ----------------------------------------------------------------- claims

\* C1: every returned triplet (a,p,n) has label[a] = label[p], label[a] # label[n]
\* and pairwise distinct indices, also when same-identity samples coincide.
C1_TripletsValid ==
    \A k \in 1..Len(triplets) :
        LET t == triplets[k]
        IN /\ labels[t.a] = labels[t.p]
           /\ labels[t.a] # labels[t.n]
           /\ t.a # t.p /\ t.a # t.n /\ t.p # t.n

\* C2: SemiHardMiner takes the negative from the band (d_ap, d_ap + margin)
\* whenever a negative candidate of the anchor lies in it.
C2_NegativeFromBand ==
    miner = "SemiHardMiner" =>
        \A k \in 1..Len(triplets) :
            LET t == triplets[k]
                d_ap == SeqMax(DistOf(emb, t.a, Arange(MaskPos(labels, t.a))))
            IN (\E j \in MaskNeg(labels, lengths, length_tolerance_ratio, t.a) :
                    InBand(Dist(emb, t.a, j), d_ap, margin))
               => InBand(Dist(emb, t.a, t.n), d_ap, margin)

\* C6: in every yielded batch each represented identity has exactly K entries, an
\* index is repeated only for an identity with fewer than K samples, and the batch
\* has P*K entries, or (identity_count mod P)*K when it is the last, shorter group.
EntriesOf(b, g) == {x \in 1..Len(b) : pk_labels[b[x]] = g}

C6_SamplerBalance ==
    \A k \in 1..Len(batches) :
        LET b == batches[k]
            n_ids == Len(Identities(pk_labels, 0))
        IN /\ \A x \in 1..Len(b) : Cardinality(EntriesOf(b, pk_labels[b[x]])) = K
           /\ \A x, y \in 1..Len(b) :
                (x # y /\ b[x] = b[y]) => Len(LabelToIndices(pk_labels, pk_labels[b[x]])) < K
           /\ IF k < SamplerLen(pk_labels, P) \/ n_ids % P = 0
              THEN Len(b) = P * K
              ELSE Len(b) = (n_ids % P) * K

\* a finished iteration with a repeated index (pool of 2, K = 3) and a shorter last batch
C6_Witness ==
    /\ spc = "exhausted"
    /\ Len(batches) >= 2
    /\ Len(batches[Len(batches)]) < P * K
    /\ K = 3
    /\ \E x, y \in 1..Len(batches[1]) : x # y /\ batches[1][x] = batches[1][y]
    /\ \E g \in 0..(MaxIdentities-1) : Len(LabelToIndices(pk_labels, g)) = 2

\* C8: each mini-batch the training loop consumes is exactly one batch yielded by
\* the PKSampler (its sample indices, in order), in sampler order.
C8_MiniBatchIsSamplerBatch ==
    lpc \in {"fetched", "TypeError"} =>
        index_batch = [j \in 1..Len(batches[1]) |-> IntIdx(batches[1][j])]

\* C5: a batch of train_one_epoch with non-finite embeddings, no triplets or
\* non-finite mean distances raises the counter of its cause by exactly one, runs no
\* backward pass and no optimizer step, lets no exception out, and the loop goes on
\* with the next batch.
C5_SkippedBatch ==
    [][(epoch_metrics'.total_batches # epoch_metrics.total_batches /\ e_batch' \in SkipCauses)
        => /\ epoch_metrics'[e_batch'] = epoch_metrics[e_batch'] + 1
           /\ \A c \in (SkipCauses \cup {"nan_losses", "oom_errors", "valid_batches"}) \ {e_batch'} :
                epoch_metrics'[c] = epoch_metrics[c]
           /\ \A k \in 1..Len(e_ops') : e_ops'[k] \notin {"backward", "optimizer_step"}
           /\ e_weights' = e_weights /\ e_grads' = e_grads /\ step' = step
           /\ e_pc' = "running" /\ e_error' = ""
           /\ batch_idx' = batch_idx + 1]_vars

\* each of the three causes has been skipped once, gradients of an earlier batch
\* are pending, and the epoch went on to its end
C5_Witness ==
    /\ e_pc = "returned"
    /\ epoch_metrics.nan_embeddings = 1
    /\ epoch_metrics.empty_triplets = 1
    /\ epoch_metrics.nan_distances = 1
    /\ e_grads = 1

\* C3: a batch whose loss is NaN or Inf makes the optimization step raise an
\* error that ends the run, and applies no parameter update for that batch.
C3_NanLossRaises ==
    [][(total_steps' # total_steps /\ t_batch' = "nan_loss")
        => (t_pc' = "raised" /\ t_weights' = t_weights)]_vars

\* C4: the parameters change only in an optimizer step of the training loop, and
\* that step runs only on a gradient found finite; with a non-finite gradient the
\* step is left out and the parameters stay as they are.
C4_StepOnlyOnFiniteGradient ==
    [][t_weights' # t_weights
        => /\ \E k \in 1..Len(t_ops') : t_ops'[k] = "optimizer_step"
           /\ t_batch' = "ok"]_vars

C9_SaveXorStagnate ==
    [][(EpochEnd /\ early_stopping_patience > 0) =>
           (ckpt_saved' # counter_incremented')]_vars

\* C10: with a positive patience the stagnation counter is the number of
\* trailing epochs without validation-EER improvement, the epoch loop stops as
\* soon as the counter reaches the patience, and otherwise it ends exactly when
\* the epoch budget is exhausted.
C10_EarlyStopping ==
    early_stopping_patience > 0 =>
        /\ (has_best_eer_seen => no_improve = stale_epochs)
        /\ (r_pc \in {"TRAIN_EPOCH", "VALIDATE", "EPOCH_END"} =>
                no_improve < early_stopping_patience)
        /\ (r_pc = "EARLY_STOP" => no_improve >= early_stopping_patience)
        /\ (r_pc = "EPOCHS_EXHAUSTED" =>
                /\ no_improve < early_stopping_patience
                /\ (epochs_run = 0 \/ epoch + 1 = epochs))


\* the first entry of observed with the lowest EER
BestObserved ==
    LET low == SeqMin([k \in 1..Len(observed) |-> observed[k].eer])
        first == CHOOSE k \in 1..Len(observed) :
                    /\ observed[k].eer = low
                    /\ \A j \in 1..(k-1) : observed[j].eer # low
    IN observed[first]

\* the final test appended its record: the test set was scored
TestScored ==
    /\ r_pc = "DONE"
    /\ Len(metrics_log) > 0
    /\ metrics_log[Len(metrics_log)] = FinalTestLine

\* C11: the final test is scored with the weights of the epoch that reached the
\* lowest validation EER, and best.pt holds exactly those weights as long as the
\* run is not interrupted: it is overwritten only by an epoch with a new best EER.
C11_FinalTestUsesBest ==
    (observed # <<>> /\ r_pc # "INTERRUPTED") =>
        /\ best_pt.exists
        /\ best_pt.model = BestObserved.model
        /\ best_pt.best_eer = BestObserved.eer
        /\ (TestScored => r_model = BestObserved.model)

\* a fresh run of two epochs, the first one the best, the last one with other
\* weights: the test is scored with the weights of the first
C11_Witness ==
    /\ TestScored
    /\ start_epoch = 0
    /\ Len(observed) = 2
    /\ BestObserved = observed[1]
    /\ observed[2].eer > observed[1].eer
    /\ observed[2].model # observed[1].model
    /\ r_model = observed[1].model

\* C12: an interrupt at any point of a run leaves best.pt as it was after the
\* last save that went through: a complete file, and the same one.
C12_CheckpointSurvivesInterrupt ==
    [][r_pc' = "INTERRUPTED" => best_pt' = best_pt]_vars

\* the epoch lines of a log, in file order
EpochNumbers(log_) ==
    LET F[k \in 0..Len(log_)] ==
            IF k = 0 THEN <<>>
            ELSE IF log_[k].kind = "epoch" THEN Append(F[k-1], log_[k].epoch) ELSE F[k-1]
    IN F[Len(log_)]

\* C13: the epoch records of metrics.jsonl carry strictly increasing epoch numbers
\* over the whole log of a run name, a resumed run included.
C13_LogEpochsIncrease ==
    start_epoch > 0 =>
        LET nums == EpochNumbers(metrics_log)
        IN \A k \in 1..(Len(nums) - 1) : nums[k] < nums[k+1]

\* C14: a resume that goes through leaves model, optimizer, scaler and scheduler
\* in the states the checkpoint holds, and the loop goes on with the epoch after
\* the one of the checkpoint.
C14_ResumeRestoresSavedState ==
    [][(r_pc = "SETUP" /\ start_epoch' > 0) =>
          /\ r_model' = best_pt.model
          /\ r_optimizer' = best_pt.optimizer
          /\ r_scaler' = best_pt.scaler
          /\ start_epoch' = best_pt.epoch
          /\ (r_pc' = "TRAIN_EPOCH" => epoch' = best_pt.epoch)
          /\ "scheduler" \in DOMAIN best_pt
          /\ scheduler' = best_pt.scheduler]_vars

\* C15: on pair labels of one class only, compute_eer and compute_metrics return
\* EER = 1.0 and AUC = 0.5 and raise nothing.
C15_DegenerateSentinel ==
    (met_pc # "input" /\ (NPos(y_true) = 0 \/ NNeg(y_true) = 0)) =>
        /\ met_pc \in {"returned", "returned_eer"}
        /\ met_result.eer[1] = met_result.eer[2]
        /\ (met_pc = "returned" => 2 * met_result.roc_auc[1] = met_result.roc_auc[2])

\* C16: the summary train_one_epoch returns holds, for each of the five skip
\* causes, the number of batches of the epoch counted under that cause.
C16_SummaryReportsAllCauses ==
    e_pc = "returned" =>
        \A c \in {"oom_errors", "nan_losses", "nan_embeddings", "nan_distances",
                  "empty_triplets"} :
            /\ c \in DOMAIN e_result
            /\ e_result[c] = epoch_metrics[c]

\* the entries of an index list as a set
IdxSet(l) == {l[k] : k \in 1..Len(l)}

\* C17: the three index lists of the split by users are pairwise disjoint, hold
\* every dataset index exactly once, and no user has samples in two of them.
C17_SplitPartitionsByUser ==
    split_pc = "done" =>
        /\ IdxSet(train_idx) \cap IdxSet(val_idx) = {}
        /\ IdxSet(train_idx) \cap IdxSet(test_idx) = {}
        /\ IdxSet(val_idx) \cap IdxSet(test_idx) = {}
        /\ IdxSet(train_idx) \cup IdxSet(val_idx) \cup IdxSet(test_idx) = 0..(ds_size - 1)
        /\ Len(train_idx) + Len(val_idx) + Len(test_idx) = ds_size
        /\ \A i, j \in 0..(ds_size - 1) :
              user_of[i] = user_of[j] =>
                  /\ (i \in IdxSet(train_idx) <=> j \in IdxSet(train_idx))
                  /\ (i \in IdxSet(val_idx) <=> j \in IdxSet(val_idx))
                  /\ (i \in IdxSet(test_idx) <=> j \in IdxSet(test_idx))

\* three users, one of them with two samples, and none of the splits empty
C17_Witness ==
    /\ split_pc = "done"
    /\ train_idx # <<>> /\ val_idx # <<>> /\ test_idx # <<>>
    /\ \E i, j \in 0..(ds_size - 1) : i # j /\ user_of[i] = user_of[j]

\* C18: a run that no exception ends goes from the setup (with or without a
\* resume) into the epoch loop, where every training epoch is followed by one
\* validation, leaves the loop by early stopping or with the budget exhausted,
\* and only then runs the final test, once, and is done.
C18_PhaseOrder ==
    [][\/ r_pc' \in {"ABORTED", "INTERRUPTED"}
       \/ (r_pc = "SETUP" /\ r_pc' \in {"TRAIN_EPOCH", "EPOCHS_EXHAUSTED"})
       \/ (r_pc = "TRAIN_EPOCH" /\ r_pc' = "VALIDATE" /\ epochs_run' = epochs_run + 1)
       \/ (r_pc = "VALIDATE" /\ r_pc' = "EPOCH_END")
       \/ (r_pc = "EPOCH_END" /\ r_pc' \in {"TRAIN_EPOCH", "EARLY_STOP", "EPOCHS_EXHAUSTED"}
             /\ Len(observed') = Len(observed) + 1)
       \/ (r_pc \in {"EARLY_STOP", "EPOCHS_EXHAUSTED"} /\ r_pc' = "DONE")]_vars

\* a run of two epochs stopped early, its test scored
C18_Witness ==
    /\ TestScored
    /\ epochs_run = 2
    /\ early_stopping_patience > 0 /\ no_improve >= early_stopping_patience

\* C19: when a failure of the epoch loop ends run(), run() has closed its log
\* file and given stdout and stderr back before the error reaches the caller.
C19_CleanStopOnFailure ==
    r_pc = "ABORTED" => resources = {}

\* C20: for every triplet of SemiHardMiner whose anchor has no negative candidate
\* strictly inside (d_ap, d_ap + margin), the negative is the nearest candidate of
\* the negative pool of that anchor, the one of lowest index among equally near.
NegPool(a) == MaskNeg(labels, lengths, length_tolerance_ratio, a)

BandEmpty(a) ==
    LET d_ap == SeqMax(DistOf(emb, a, Arange(MaskPos(labels, a))))
    IN \A j \in NegPool(a) : ~InBand(Dist(emb, a, j), d_ap, margin)

C20_FallbackNearestNegative ==
    miner = "SemiHardMiner" =>
        \A k \in 1..Len(triplets) :
            LET t == triplets[k]
            IN BandEmpty(t.a) =>
                 /\ t.n \in NegPool(t.a)
                 /\ \A j \in NegPool(t.a) :
                       \/ Dist(emb, t.a, t.n) < Dist(emb, t.a, j)
                       \/ Dist(emb, t.a, t.n) = Dist(emb, t.a, j) /\ t.n <= j

\* a fallback triplet whose anchor has two equally near negatives
C20_Witness ==
    /\ miner = "SemiHardMiner"
    /\ \E k \in 1..Len(triplets) :
         LET t == triplets[k]
         IN /\ BandEmpty(t.a)
            /\ \E j \in NegPool(t.a) : j > t.n /\ Dist(emb, t.a, j) = Dist(emb, t.a, t.n)

\* C21: for both miners, index i is an anchor of the output exactly when the batch
\* holds another index of the same identity and the negative pool of i (different
\* identity, after the length filter) is not empty; the output is empty when no
\* index qualifies, as in a batch of a single identity.
Anchors == {triplets[k].a : k \in 1..Len(triplets)}

Qualifies(i) ==
    /\ \E j \in DOMAIN labels : j # i /\ labels[j] = labels[i]
    /\ NegPool(i) # {}

C21_AnchorIffPools ==
    miner # "" =>
        /\ \A i \in DOMAIN labels : i \in Anchors <=> Qualifies(i)
        /\ Anchors \subseteq DOMAIN labels
        /\ ((\A i \in DOMAIN labels : ~Qualifies(i)) => triplets = <<>>)
        /\ ((\A i, j \in DOMAIN labels : labels[i] = labels[j]) => triplets = <<>>)

\* a batch of two identities where the length filter leaves one index of a pair
\* without negatives while its partner stays an anchor
C21_Witness ==
    /\ miner # ""
    /\ \E i, j \in DOMAIN labels :
         /\ i # j /\ labels[i] = labels[j]
         /\ i \in Anchors /\ j \notin Anchors

\* C24: for both miners and every returned triplet (a, p, n), no sample of the
\* identity of a lies farther from a than p does.
C24_PositiveIsFarthest ==
    \A k \in 1..Len(triplets) :
        LET t == triplets[k]
        IN \A j \in DOMAIN labels :
             labels[j] = labels[t.a] => Dist(emb, t.a, t.p) >= Dist(emb, t.a, j)

\* an anchor with two other samples of its identity at different distances
C24_Witness ==
    /\ miner # ""
    /\ \E k \in 1..Len(triplets) :
         LET t == triplets[k]
         IN \E j \in DOMAIN labels :
              /\ j # t.a /\ j # t.p /\ labels[j] = labels[t.a]
              /\ Dist(emb, t.a, j) > 0
              /\ Dist(emb, t.a, j) < Dist(emb, t.a, t.p)

\* C22: a finished iteration of PKSampler has yielded ceil(identity_count / P)
\* batches, the value of __len__, and every identity of label_to_indices has its
\* entries in exactly one of them.
CeilDiv(n, d) == CHOOSE q \in 0..n : q * d >= n /\ (q = 0 \/ (q - 1) * d < n)

BatchesOf(g) == {k \in 1..Len(batches) : EntriesOf(batches[k], g) # {}}

C22_SamplerLength ==
    spc = "exhausted" =>
        LET idents == Identities(pk_labels, 0)
        IN /\ Len(batches) = CeilDiv(Len(idents), P)
           /\ Len(batches) = SamplerLen(pk_labels, P)
           /\ \A x \in 1..Len(idents) : Cardinality(BatchesOf(idents[x])) = 1

\* three identities taken two at a time: two batches, the last with one identity
C22_Witness ==
    /\ spc = "exhausted"
    /\ Len(Identities(pk_labels, 0)) = 3
    /\ P = 2
    /\ Len(batches) = 2
    /\ shuffle_identities

\* C23: in a run without a run name the resume block loads no checkpoint, whatever
\* the resume flag and whatever best.pt holds: the epoch loop starts at epoch 0,
\* best_eer stays None and model, optimizer and scaler stay as initialised.
C23_AnonymousNeverResumes ==
    [][(r_pc = "SETUP" /\ r_pc' # "INTERRUPTED" /\ ~run_name_set)
        => /\ start_epoch' = 0
           /\ best_eer' = NoEer
           /\ r_model' = r_model /\ r_optimizer' = r_optimizer /\ r_scaler' = r_scaler
           /\ observed' = <<>>
           /\ (epochs > 0 => (r_pc' = "TRAIN_EPOCH" /\ epoch' = 0))]_vars

\* an unnamed run with resume set, whose legacy checkpoint directory holds a
\* complete best.pt of an earlier run, at the head of its first epoch
C23_Witness ==
    /\ ~run_name_set /\ resume /\ legacy_dirs
    /\ best_pt.exists /\ best_pt.complete /\ best_pt.epoch = 1
    /\ r_pc = "TRAIN_EPOCH" /\ epochs_run = 0 /\ epoch = 0
    /\ best_eer = NoEer /\ r_model = 0

\* C28: a run that goes into its first epoch from scratch (start epoch 0, best_eer
\* None), as it does after a resume that failed at any step, trains the freshly
\* initialised model, optimizer and scaler: nothing of the checkpoint is in them.
C28_FailedResumeStartsFresh ==
    (r_pc = "TRAIN_EPOCH" /\ epochs_run = 0 /\ start_epoch = 0 /\ best_eer = NoEer)
        => (r_model = 0 /\ r_optimizer = 0 /\ r_scaler = 0)

BoundaryOps == {"unscale", "clip", "check_grad_norm", "optimizer_step", "scaler_update",
                "zero_grad", "scheduler_step"}

OpsAfterBackward(ops) == SubSeq(ops, Len(OpsToLoss) + 2, Len(ops))

C26_AccumulationOrder ==
    /\ [](e_pc # "" => e_weights = epoch_metrics.valid_batches \div grad_accum_steps)
    /\ [][(e_batch' \in SkipCauses /\ batch_idx' # batch_idx)
            => (step' = step /\ e_grads' = e_grads /\ e_weights' = e_weights)]_vars
    /\ [][(step' # step) =>
            /\ step' = step + 1
            /\ SubSeq(e_ops', 1, Len(OpsToLoss) + 1) = OpsToLoss \o <<"backward">>
            /\ IF step' % grad_accum_steps = 0
               THEN IF e_pc' = "raised" /\ e_error' = "RuntimeError"
                    THEN /\ OpsAfterBackward(e_ops') = <<"unscale", "clip", "check_grad_norm">>
                         /\ e_weights' = e_weights
                    ELSE /\ SubSeq(OpsAfterBackward(e_ops'), 1, 6) =
                              <<"unscale", "clip", "check_grad_norm", "optimizer_step",
                                "scaler_update", "zero_grad">>
                         /\ (has_scheduler =>
                               OpsAfterBackward(e_ops')[7] = "scheduler_step")
                         /\ e_weights' = e_weights + 1
                         /\ e_grads' = 0
               ELSE /\ \A k \in 1..Len(e_ops') : e_ops'[k] \notin BoundaryOps
                    /\ e_weights' = e_weights
                    /\ e_grads' = e_grads + 1]_vars

\* an epoch with G = 2 that returned: a skipped batch, then three trained batches
\* with one optimizer step after the second of them
C26_Witness ==
    /\ e_pc = "returned"
    /\ grad_accum_steps = 2
    /\ epoch_metrics.valid_batches = 3
    /\ epoch_metrics.total_batches = 4
    /\ e_weights = 1
    /\ e_grads = 1

\* C27: an epoch of train_one_epoch without a non-finite embedding, distance, loss
\* or gradient, without out-of-memory and without any other error of a batch does
\* not raise, whatever grad_accum_steps >= 1 and log_frequency >= 1; when it
\* returns it has gone through every batch of the dataloader.
CleanEpoch ==
    /\ epoch_metrics.nan_embeddings = 0 /\ epoch_metrics.nan_distances = 0
    /\ epoch_metrics.nan_losses = 0 /\ epoch_metrics.oom_errors = 0
    /\ e_grads_finite
    /\ e_batch \in {"", "ok", "empty_triplets"}

C27_CleanEpochReturns ==
    /\ (CleanEpoch => e_pc # "raised")
    /\ (e_pc = "returned" => epoch_metrics.total_batches = n_batches)

\* C30: when train_one_epoch has returned, total_batches is the sum of
\* valid_batches, nan_embeddings, empty_triplets and nan_distances, valid_batches
\* is the number of recorded losses, and oom_errors and nan_losses are 0.
C30_CountersAddUp ==
    e_pc = "returned" =>
        /\ epoch_metrics.total_batches =
             epoch_metrics.valid_batches + epoch_metrics.nan_embeddings
             + epoch_metrics.empty_triplets + epoch_metrics.nan_distances
        /\ epoch_metrics.valid_batches = epoch_metrics.losses
        /\ epoch_metrics.oom_errors = 0 /\ epoch_metrics.nan_losses = 0
        /\ e_result.total_batches = epoch_metrics.total_batches
        /\ e_result.valid_batches = epoch_metrics.valid_batches
        /\ e_result.oom_errors = 0 /\ e_result.nan_losses = 0

\* a returned epoch with one batch of each skip cause and one trained batch
C30_Witness ==
    /\ e_pc = "returned"
    /\ epoch_metrics.nan_embeddings = 1
    /\ epoch_metrics.empty_triplets = 1
    /\ epoch_metrics.nan_distances = 1
    /\ epoch_metrics.valid_batches = 1
    /\ e_weights = 1

\* C25: the validation pairs keep at most 6 finite embeddings per user code, the
\* first ones to arrive; a user code with m kept embeddings has m*(m-1)/2 pairs
\* labelled 1, each joining two different kept embeddings of it; a pair labelled 0
\* joins the user code at position i of the first-seen order with one at the
\* positions i+1..i+3, each side being one of the first 2 kept embeddings; pairs
\* labelled 1 are within one user code, pairs labelled 0 across two.
FiniteRanks(u) == Arange({k \in 1..Len(v_seen[u]) : v_seen[u][k]})

PosOf(u) == CHOOSE i \in 1..Len(ucs) : ucs[i] = u

OnesOf(u) == {k \in 1..Len(v_pairs) : v_pairs[k].y = 1 /\ v_pairs[k].a[1] = u}

InFirst(u, e, n) == \E x \in 1..n : x <= Len(per_uc_embs[u]) /\ per_uc_embs[u][x] = e

C25_ValidationPairs ==
    v_pc \in {"built", "ValueError"} =>
        /\ \A u \in ValUsers :
             /\ Len(per_uc_embs[u]) <= 6
             /\ per_uc_embs[u] = Take(FiniteRanks(u), 6)
             /\ 2 * Cardinality(OnesOf(u)) = Len(per_uc_embs[u]) * (Len(per_uc_embs[u]) - 1)
             /\ \A k, l \in OnesOf(u) :
                  k # l => <<v_pairs[k].a, v_pairs[k].b>> # <<v_pairs[l].a, v_pairs[l].b>>
        /\ \A k \in 1..Len(v_pairs) :
             LET pr == v_pairs[k]
             IN IF pr.y = 1
                THEN /\ pr.a[1] = pr.b[1]
                     /\ pr.a[2] < pr.b[2]
                     /\ InFirst(pr.a[1], pr.a[2], 6) /\ InFirst(pr.b[1], pr.b[2], 6)
                ELSE /\ pr.y = 0
                     /\ pr.a[1] # pr.b[1]
                     /\ PosOf(pr.b[1]) - PosOf(pr.a[1]) \in 1..3
                     /\ InFirst(pr.a[1], pr.a[2], 2) /\ InFirst(pr.b[1], pr.b[2], 2)

\* five user codes, the first with seven finite samples (one more than the cap)
\* and so with 15 genuine pairs, the last out of reach of the first
C25_Witness ==
    /\ v_pc = "built"
    /\ Len(ucs) = 5
    /\ Len(FiniteRanks(ucs[1])) = 7
    /\ Cardinality(OnesOf(ucs[1])) = 15
    /\ \E k \in 1..Len(v_pairs) : v_pairs[k].y = 0 /\ v_pairs[k].a[1] = ucs[1]
====
